---- MODULE Spec2Model ----
(***************************************************************************)
(* Session tracking engine of EnForHoldet: the useLocationTracking hook    *)
(* (foreground watcher, start/stop, recovery on mount), the background     *)
(* location task, the AsyncStorage-backed storageService and the           *)
(* SessionSummary screen.                                                  *)
(*                                                                         *)
(* Abstractions.  Positions lie on one meridian, in grid steps; on a       *)
(* meridian the haversine distance is R * |delta latitude|, so             *)
(* calculateDistance is the absolute difference in grid steps.  Date.now() *)
(* is the variable now; `session_${Date.now()}` is the number now.  The    *)
(* value stored under a key is the parsed value: for the fields modelled   *)
(* (integers and arrays of them) JSON.parse(JSON.stringify(v)) equals v,   *)
(* and a field that is undefined is dropped by stringify and read back as  *)
(* undefined.  AsyncStorage runs its operations on one serial native       *)
(* queue, in the order issued: queue; a write is executed and acknowledged *)
(* in one step, and a process restart drops what is still queued.  Reads   *)
(* of the active record do not fail; a failed read of the completed        *)
(* collection is an input of the store operations of SpecStore.  The       *)
(* timestamp of a fix is the number of its arrival, except in SpecOrder,   *)
(* where it is an input.  One startTracking call, up to two                *)
(* stopTracking calls and one invocation of the background task are in     *)
(* progress at a time; the task gets one location per invocation.  The     *)
(* read-modify-write of the completed collection by saveSession and        *)
(* deleteSession is one step, except in SpecRace, where the read and the   *)
(* write are separate steps (pending).  Of the SessionSummary screen,      *)
(* loadSession, the validated submit and, in SpecCancel, 'Save Without     *)
(* Summary' are modelled, with the weight a whole number of kilograms and  *)
(* the categories a set over two of the six categories.  The error state   *)
(* of the hook and a watcher subscription replaced by a later one are not  *)
(* modelled.                                                               *)
(***************************************************************************)
EXTENDS Integers, Sequences, FiniteSets, TLC

\* ---- bounds ----
MaxClock == 1
MaxFixes == 2
MaxPos == 1
MaxQueue == 2
MaxSessions == 1
MaxPath == 3
MaxStopFixes == 1
MaxRecords == 3
MaxWeightKg == 1
MaxStamp == 2
MaxPending == 2

VARIABLES
  now,            \* Date.now()
  currentSession, \* React state currentSession of the hook
  isTracking,     \* React state isTracking
  subRef,         \* locationSubscriptionRef.current is set
  bgRunning,      \* Location updates registered for LOCATION_TASK_NAME
  activeRec,      \* value under CURRENT_SESSION_KEY
  sessions,       \* value under SESSIONS_KEY
  queue,          \* AsyncStorage operations on CURRENT_SESSION_KEY issued, not yet executed
  startPc,        \* position of a startTracking call
  stopPc,         \* position of a stopTracking call
  stopSession,    \* currentSession captured by the stopTracking closure, then finalSession
  bgPc,           \* position of the background task invocation
  bgFix,          \* locationPoint of the background task invocation
  bgSnap,         \* currentSession local of the background task (what it read)
  recPc,          \* position of loadActiveSession
  nfix,           \* fixes delivered so far (timestamp of the last one)
  delivered,      \* history: timestamps of the fixes delivered while Active
  stopDone,       \* history: a stopTracking call has saved a session and completed, no startTracking call ran since
  lastAcked,      \* history: the last write of the active record that was acknowledged
  stop2Pc,        \* position of a second stopTracking call, made while the first is in progress
  stop2Session,   \* currentSession captured by the second call's closure, then its finalSession
  sumPc,          \* position of the SessionSummary screen
  sumId,          \* params.sessionId of the SessionSummary screen
  sumSession,     \* React state session of the SessionSummary screen
  pending,        \* saveSession and deleteSession calls that have read SESSIONS_KEY and not yet written
  recovered       \* history: what the reads of loadActiveSession returned, while nothing but restarts came between them

vars == <<now, currentSession, isTracking, subRef, bgRunning,
          activeRec, sessions, queue, startPc, stopPc, stopSession,
          bgPc, bgFix, bgSnap, recPc, nfix, delivered, stopDone, lastAcked,
          stop2Pc, stop2Session, sumPc, sumId, sumSession, pending, recovered>>

hookVars == <<currentSession, isTracking>>
srcVars == <<subRef, bgRunning>>
stopVars == <<stopPc, stopSession>>
bgVars == <<bgPc, bgFix, bgSnap>>
stop2Vars == <<stop2Pc, stop2Session>>
sumVars == <<sumPc, sumId, sumSession>>

\* ---- values ----
Undefined == -1

\* null / no session; a field that is absent is Undefined, an absent
\* foundCategories is the empty set
None == [id |-> Undefined, startTime |-> Undefined, endTime |-> Undefined,
         locations |-> <<>>, distance |-> Undefined, duration |-> Undefined,
         totalWeightG |-> Undefined, foundCategories |-> {}]

NoFix == [latitude |-> Undefined, timestamp |-> Undefined]

Positions == 0..MaxPos

Abs(x) == IF x < 0 THEN -x ELSE x

\* ---- GeoMath ----
\* calculateDistance (haversine) restricted to one meridian
\* a distance that keeps the sign of the difference
calculateDistance_Signed(point1, point2) == point2.latitude - point1.latitude

\* a distance that also counts the time between the two fixes
calculateDistance_WithTime(point1, point2) ==
  Abs(point2.latitude - point1.latitude) + Abs(point2.timestamp - point1.timestamp)

calculateDistance(point1, point2) == Abs(point2.latitude - point1.latitude)

RECURSIVE DistanceLoop(_, _)
\* for (let i = 1; i < updatedLocations.length; i++) totalDistance += ...
\* (i is the 1-based index of the second point of the pair)
DistanceLoop(locs, i) ==
  IF i > Len(locs) THEN 0
  ELSE calculateDistance(locs[i - 1], locs[i]) + DistanceLoop(locs, i + 1)

\* the loop starting one pair late
totalDistance_FromSecondPair(updatedLocations) ==
  IF Len(updatedLocations) > 1 THEN DistanceLoop(updatedLocations, 3) ELSE 0

totalDistance(updatedLocations) ==
  IF Len(updatedLocations) > 1 THEN DistanceLoop(updatedLocations, 2) ELSE 0

\* ---- session values ----
\* newSession of startTracking: no distance and no duration field
\* (id and startTime are read in the same millisecond)
startSession(t) ==
  [id |-> t, startTime |-> t, endTime |-> Undefined,
   locations |-> <<>>, distance |-> Undefined, duration |-> Undefined,
   totalWeightG |-> Undefined, foundCategories |-> {}]

\* newSession of the ingest paths: created around the fix that arrived
newSession(fix, t) ==
  [id |-> t, startTime |-> t, endTime |-> Undefined,
   locations |-> <<fix>>, distance |-> 0, duration |-> 0,
   totalWeightG |-> Undefined, foundCategories |-> {}]

\* an updater that files the fix by its timestamp instead of appending it
updatedSession_ByTimestamp(prev, fix, t) ==
  LET k == Cardinality({i \in 1..Len(prev.locations) :
                          prev.locations[i].timestamp <= fix.timestamp})
      updatedLocations == SubSeq(prev.locations, 1, k) \o <<fix>>
                            \o SubSeq(prev.locations, k + 1, Len(prev.locations))
  IN [prev EXCEPT !.locations = updatedLocations,
                  !.distance = totalDistance(updatedLocations),
                  !.duration = t - prev.startTime]

\* an updater that starts the session anew at every fix
updatedSession_Restamped(prev, fix, t) ==
  [prev EXCEPT !.locations = Append(prev.locations, fix),
               !.distance = totalDistance(Append(prev.locations, fix)),
               !.startTime = t,
               !.duration = 0]

updatedSession(prev, fix, t) ==
  [prev EXCEPT !.locations = Append(prev.locations, fix),
               !.distance = totalDistance(Append(prev.locations, fix)),
               !.duration = t - prev.startTime]

\* the updater handleLocationUpdate passes to setCurrentSession
handleLocationUpdate(prev, fix, t) ==
  IF prev = None THEN newSession(fix, t) ELSE updatedSession(prev, fix, t)

\* what the background task saves for the session it loaded
locationTask(cur, fix, t) ==
  IF cur # None THEN updatedSession(cur, fix, t) ELSE newSession(fix, t)

finalSession(cur, t1, t2) ==
  [cur EXCEPT !.endTime = t1, !.duration = t2 - cur.startTime]

\* ---- storageService ----
\* a null that is written as no change instead of removing the key
saveCurrentSession_KeepsOnNull(stored, session) ==
  IF session = None THEN stored ELSE session

\* setItem(JSON.stringify(session)) / removeItem: the whole value is replaced
saveCurrentSession(stored, session) == session

\* a read that returns a fresh session under the stored id instead of the record
getCurrentSession_Fresh(stored) ==
  IF stored = None THEN None ELSE startSession(stored.id)

\* getItem + JSON.parse, null when the key is absent
getCurrentSession(stored) == stored

\* [...sessions, session]
saveSession(stored, session) == Append(stored, session)

\* getSessions: the parsed collection, or [] when the read or the parse throws
getSessions(stored, readOk) == IF readOk THEN stored ELSE <<>>

\* what deleteSession writes back for the collection it read
deleteSession(stored, id) == SelectSeq(stored, LAMBDA s : s.id # id)

\* sessions.find(s => s.id === id) || null: the first record with the id
getSession(stored, id) ==
  IF \E i \in 1..Len(stored) : stored[i].id = id
    THEN stored[CHOOSE i \in 1..Len(stored) :
                  /\ stored[i].id = id
                  /\ \A j \in 1..(i - 1) : stored[j].id # id]
    ELSE None

\* an operation on CURRENT_SESSION_KEY handed to AsyncStorage: the caller (by) and,
\* for the save of an ingest, the fix that ingest is about
Put(session, by, fix) == [kind |-> "put", val |-> session, by |-> by, fix |-> fix]
Get(by) == [kind |-> "get", val |-> None, by |-> by, fix |-> NoFix]

\* Date.now() at a read: time has passed since the last read (now is the last
\* value read)
Times == now..MaxClock

\* the second Date.now() of finalSession may fall in the next millisecond
Skews(t) == {d \in {0, 1} : t + d <= MaxClock}

Fix(p) == [latitude |-> p, timestamp |-> nfix + 1]

\* the engine holds a session and no stopTracking call has begun
Active == currentSession # None /\ stopPc = "idle"

\* no read of loadActiveSession has returned since the engine or the store last acted
NotRecovered == [val |-> None, n |-> 0]

Init ==
  /\ now = 0
  /\ currentSession = None
  /\ isTracking = FALSE
  /\ subRef = FALSE
  /\ bgRunning = FALSE
  /\ activeRec = None
  /\ sessions = <<>>
  /\ queue = <<Get("recover")>>
  /\ startPc = "idle"
  /\ stopPc = "idle"
  /\ stopSession = None
  /\ bgPc = "idle"
  /\ bgFix = NoFix
  /\ bgSnap = None
  /\ recPc = "reading"
  /\ nfix = 0
  /\ delivered = {}
  /\ stopDone = FALSE
  /\ lastAcked = Put(None, "none", NoFix)
  /\ stop2Pc = "idle"
  /\ stop2Session = None
  /\ sumPc = "closed"
  /\ sumId = Undefined
  /\ sumSession = None
  /\ pending = {}
  /\ recovered = NotRecovered

\* startTracking up to setIsTracking(true)
StartCreate(hasPermission, t) ==
  /\ startPc = "idle"
  /\ IF hasPermission
       THEN /\ currentSession' = startSession(t)
            /\ isTracking' = TRUE
            /\ startPc' = "bg"
            /\ now' = t
            /\ delivered' = {}
            /\ stopDone' = FALSE
       ELSE UNCHANGED <<currentSession, isTracking, startPc, now, delivered, stopDone>>
  /\ UNCHANGED <<srcVars, activeRec, sessions, queue, stopVars, bgVars, recPc,
                 nfix, lastAcked>>
  /\ recovered' = NotRecovered
  /\ UNCHANGED pending
  /\ UNCHANGED <<stop2Vars, sumVars>>

\* startTracking: await Location.startLocationUpdatesAsync, failure only warned
StartBackground(ok) ==
  /\ startPc = "bg"
  /\ bgRunning' = (bgRunning \/ ok)
  /\ startPc' = "watch"
  /\ UNCHANGED <<now, hookVars, subRef, activeRec, sessions, queue,
                 stopVars, bgVars, recPc, nfix, delivered, stopDone, lastAcked>>
  /\ recovered' = NotRecovered
  /\ UNCHANGED pending
  /\ UNCHANGED <<stop2Vars, sumVars>>

\* startTracking: await Location.watchPositionAsync, and the catch
StartWatch(ok) ==
  /\ startPc = "watch"
  /\ startPc' = "idle"
  /\ IF ok
       THEN /\ subRef' = TRUE
            /\ UNCHANGED isTracking
       ELSE /\ isTracking' = FALSE
            /\ UNCHANGED subRef
  /\ UNCHANGED <<now, currentSession, bgRunning, activeRec, sessions, queue,
                 stopVars, bgVars, recPc, nfix, delivered, stopDone, lastAcked>>
  /\ recovered' = NotRecovered
  /\ UNCHANGED pending
  /\ UNCHANGED <<stop2Vars, sumVars>>

\* the foreground watcher delivers a fix to handleLocationUpdate
\* (limit: how many fixes the sources deliver in all)
FgIngestFix(limit, fix, t) ==
  /\ subRef
  /\ nfix < limit
  /\ Len(queue) < MaxQueue
  /\ currentSession' = handleLocationUpdate(currentSession, fix, t)
  /\ now' = t
  /\ queue' = Append(queue, Put(currentSession', "fg", fix))
  /\ nfix' = nfix + 1
  /\ delivered' = IF Active THEN delivered \cup {fix.timestamp} ELSE delivered
  /\ UNCHANGED <<isTracking, srcVars, activeRec, sessions, startPc,
                 stopVars, bgVars, recPc, lastAcked, stopDone>>
  /\ recovered' = NotRecovered
  /\ UNCHANGED pending
  /\ UNCHANGED <<stop2Vars, sumVars>>

\* the watcher delivers the next fix, stamped with the number of its arrival
FgIngest(limit, p, t) == FgIngestFix(limit, Fix(p), t)

\* the background task is invoked with one location and awaits getCurrentSession
BgDeliverFix(limit, fix) ==
  /\ bgRunning
  /\ bgPc = "idle"
  /\ nfix < limit
  /\ Len(queue) < MaxQueue
  /\ bgFix' = fix
  /\ bgPc' = "reading"
  /\ queue' = Append(queue, Get("bg"))
  /\ nfix' = nfix + 1
  /\ delivered' = IF Active THEN delivered \cup {fix.timestamp} ELSE delivered
  /\ UNCHANGED <<now, hookVars, srcVars, activeRec, sessions, startPc, stopVars,
                 bgSnap, recPc, lastAcked, stopDone>>
  /\ recovered' = NotRecovered
  /\ UNCHANGED pending
  /\ UNCHANGED <<stop2Vars, sumVars>>

\* the task gets the next fix, stamped with the number of its arrival
BgDeliver(limit, p) == BgDeliverFix(limit, Fix(p))

\* the store answers the task's read; the task computes and issues its save
StoreGetBg(t) ==
  /\ queue # <<>>
  /\ Head(queue).kind = "get"
  /\ Head(queue).by = "bg"
  /\ bgSnap' = getCurrentSession(activeRec)
  /\ bgPc' = "saving"
  /\ now' = t
  /\ queue' = Append(Tail(queue), Put(locationTask(bgSnap', bgFix, t), "bg", bgFix))
  /\ UNCHANGED <<hookVars, srcVars, activeRec, sessions, startPc, stopVars, bgFix,
                 recPc, nfix, delivered, stopDone, lastAcked>>
  /\ recovered' = NotRecovered
  /\ UNCHANGED pending
  /\ UNCHANGED <<stop2Vars, sumVars>>

\* a read of loadActiveSession that takes the record out of the store
StoreGetRecover_Consumes ==
  /\ queue # <<>>
  /\ Head(queue).kind = "get"
  /\ Head(queue).by = "recover"
  /\ queue' = Tail(queue)
  /\ activeRec' = None
  /\ IF getCurrentSession(activeRec) # None
       THEN /\ currentSession' = getCurrentSession(activeRec)
            /\ isTracking' = TRUE
            /\ recPc' = "resume"
       ELSE /\ recPc' = "done"
            /\ UNCHANGED <<currentSession, isTracking>>
  /\ recovered' = [val |-> getCurrentSession(activeRec),
                    n |-> IF recovered.n = 0 THEN 1 ELSE 2]
  /\ UNCHANGED pending
  /\ UNCHANGED <<now, srcVars, sessions, startPc, stopVars,
                 bgVars, nfix, delivered, stopDone, lastAcked, stop2Vars, sumVars>>

\* the store answers loadActiveSession's read
StoreGetRecover ==
  /\ queue # <<>>
  /\ Head(queue).kind = "get"
  /\ Head(queue).by = "recover"
  /\ queue' = Tail(queue)
  /\ IF getCurrentSession(activeRec) # None
       THEN /\ currentSession' = getCurrentSession(activeRec)
            /\ isTracking' = TRUE
            /\ recPc' = "resume"
       ELSE /\ recPc' = "done"
            /\ UNCHANGED <<currentSession, isTracking>>
  /\ UNCHANGED <<now, srcVars, activeRec, sessions, startPc, stopVars,
                 bgVars, nfix, delivered, stopDone, lastAcked>>
  /\ recovered' = [val |-> getCurrentSession(activeRec),
                    n |-> IF recovered.n = 0 THEN 1 ELSE 2]
  /\ UNCHANGED pending
  /\ UNCHANGED <<stop2Vars, sumVars>>

\* what runs when the promise of a saveCurrentSession call settles
AfterSave(by) ==
  /\ IF by = "bg"
       THEN bgPc' = "idle" /\ bgFix' = NoFix /\ bgSnap' = None
       ELSE UNCHANGED bgVars
  /\ IF by \in {"stop", "stop2"}
       THEN /\ currentSession' = None
            /\ isTracking' = FALSE
            /\ stopDone' = TRUE
       ELSE UNCHANGED <<currentSession, isTracking, stopDone>>
  /\ IF by = "stop"
       THEN stopPc' = "idle" /\ stopSession' = None
       ELSE UNCHANGED stopVars
  /\ IF by = "stop2"
       THEN stop2Pc' = "idle" /\ stop2Session' = None
       ELSE UNCHANGED stop2Vars
  /\ IF by = "summary"
       THEN sumPc' = "closed" /\ sumId' = Undefined /\ sumSession' = None
       ELSE UNCHANGED sumVars

\* the store executes and acknowledges a write of the active record
StoreSet ==
  /\ queue # <<>>
  /\ Head(queue).kind = "put"
  /\ activeRec' = saveCurrentSession(activeRec, Head(queue).val)
  /\ lastAcked' = Head(queue)
  /\ queue' = Tail(queue)
  /\ AfterSave(Head(queue).by)
  /\ recovered' = NotRecovered
  /\ UNCHANGED pending
  /\ UNCHANGED <<now, srcVars, sessions, startPc, recPc, nfix, delivered>>

\* the write fails: saveCurrentSession logs the error and resolves
StoreSetFail ==
  /\ queue # <<>>
  /\ Head(queue).kind = "put"
  /\ queue' = Tail(queue)
  /\ AfterSave(Head(queue).by)
  /\ recovered' = NotRecovered
  /\ UNCHANGED pending
  /\ UNCHANGED <<now, srcVars, activeRec, sessions, startPc, recPc, nfix,
                 delivered, lastAcked>>

\* stopTracking: the watcher subscription is removed
StopBegin ==
  /\ stopPc = "idle"
  /\ Len(sessions) < MaxSessions
  /\ subRef' = FALSE
  /\ stopSession' = currentSession
  /\ stopPc' = "stopBg"
  /\ UNCHANGED <<now, hookVars, bgRunning, activeRec, sessions, queue,
                 startPc, bgVars, recPc, nfix, delivered, stopDone, lastAcked>>
  /\ recovered' = NotRecovered
  /\ UNCHANGED pending
  /\ UNCHANGED <<stop2Vars, sumVars>>

\* a stopTracking without the `if (currentSession)` test
StopBackground_AlwaysSaves(t, d) ==
  /\ stopPc = "stopBg"
  /\ bgRunning' = FALSE
  /\ stopSession' = finalSession(stopSession, t, t + d)
  /\ now' = t + d
  /\ stopPc' = "save"
  /\ recovered' = NotRecovered
  /\ UNCHANGED pending
  /\ UNCHANGED <<hookVars, subRef, activeRec, sessions, queue, startPc, bgVars,
                 recPc, nfix, delivered, stopDone, lastAcked, stop2Vars, sumVars>>

\* stopTracking: await stopLocationUpdatesAsync, then finalSession is built
StopBackground(t, d) ==
  /\ stopPc = "stopBg"
  /\ bgRunning' = FALSE
  /\ IF stopSession # None
       THEN /\ stopSession' = finalSession(stopSession, t, t + d)
            /\ now' = t + d
            /\ stopPc' = "save"
            /\ UNCHANGED isTracking
       ELSE /\ isTracking' = FALSE
            /\ stopPc' = "idle"
            /\ UNCHANGED <<stopSession, now>>
  /\ UNCHANGED <<currentSession, subRef, activeRec, sessions,
                 queue, startPc, bgVars, recPc, nfix, delivered, stopDone, lastAcked>>
  /\ recovered' = NotRecovered
  /\ UNCHANGED pending
  /\ UNCHANGED <<stop2Vars, sumVars>>

\* stopTracking: saveSession resolved, the clear of the active record is issued
StopAppend ==
  /\ stopPc = "save"
  /\ Len(queue) < MaxQueue
  /\ sessions' = saveSession(sessions, stopSession)
  /\ queue' = Append(queue, Put(None, "stop", NoFix))
  /\ stopPc' = "clear"
  /\ UNCHANGED <<now, hookVars, srcVars, activeRec, stopSession, startPc, bgVars,
                 recPc, nfix, delivered, stopDone, lastAcked>>
  /\ recovered' = NotRecovered
  /\ UNCHANGED pending
  /\ UNCHANGED <<stop2Vars, sumVars>>

\* a catch that finishes the call as the success path does
StopAppendFail_Finishes ==
  /\ stopPc = "save"
  /\ stopPc' = "idle"
  /\ stopSession' = None
  /\ currentSession' = None
  /\ isTracking' = FALSE
  /\ UNCHANGED <<now, srcVars, activeRec, sessions,
                 queue, startPc, bgVars, recPc, nfix, delivered, stopDone, lastAcked>>
  /\ recovered' = NotRecovered
  /\ UNCHANGED pending
  /\ UNCHANGED <<stop2Vars, sumVars>>

\* stopTracking: saveSession threw, the catch sets the error
StopAppendFail ==
  /\ stopPc = "save"
  /\ stopPc' = "idle"
  /\ stopSession' = None
  /\ UNCHANGED <<now, currentSession, isTracking, srcVars, activeRec, sessions,
                 queue, startPc, bgVars, recPc, nfix, delivered, stopDone, lastAcked>>
  /\ recovered' = NotRecovered
  /\ UNCHANGED pending
  /\ UNCHANGED <<stop2Vars, sumVars>>

\* a second stopTracking call, made while the first has not returned: the same
\* closure, so the same currentSession
StopAgainBegin ==
  /\ stopPc # "idle"
  /\ stop2Pc = "idle"
  /\ Len(sessions) <= MaxSessions
  /\ subRef' = FALSE
  /\ stop2Session' = currentSession
  /\ stop2Pc' = "stopBg"
  /\ recovered' = NotRecovered
  /\ UNCHANGED pending
  /\ UNCHANGED <<now, hookVars, bgRunning, activeRec, sessions, queue, startPc,
                 stopVars, bgVars, recPc, nfix, delivered, stopDone, lastAcked,
                 sumVars>>

\* the second call: await stopLocationUpdatesAsync, then its finalSession
StopAgainBackground(t, d) ==
  /\ stop2Pc = "stopBg"
  /\ bgRunning' = FALSE
  /\ IF stop2Session # None
       THEN /\ stop2Session' = finalSession(stop2Session, t, t + d)
            /\ now' = t + d
            /\ stop2Pc' = "save"
            /\ UNCHANGED isTracking
       ELSE /\ isTracking' = FALSE
            /\ stop2Pc' = "idle"
            /\ UNCHANGED <<stop2Session, now>>
  /\ recovered' = NotRecovered
  /\ UNCHANGED pending
  /\ UNCHANGED <<currentSession, subRef, activeRec, sessions, queue, startPc,
                 stopVars, bgVars, recPc, nfix, delivered, stopDone, lastAcked,
                 sumVars>>

\* the second call: saveSession resolved, the clear is issued
StopAgainAppend ==
  /\ stop2Pc = "save"
  /\ Len(queue) < MaxQueue
  /\ sessions' = saveSession(sessions, stop2Session)
  /\ queue' = Append(queue, Put(None, "stop2", NoFix))
  /\ stop2Pc' = "clear"
  /\ recovered' = NotRecovered
  /\ UNCHANGED pending
  /\ UNCHANGED <<now, hookVars, srcVars, activeRec, stop2Session, startPc,
                 stopVars, bgVars, recPc, nfix, delivered, stopDone, lastAcked,
                 sumVars>>

\* the second call: saveSession threw, the catch sets the error
StopAgainAppendFail ==
  /\ stop2Pc = "save"
  /\ stop2Pc' = "idle"
  /\ stop2Session' = None
  /\ recovered' = NotRecovered
  /\ UNCHANGED pending
  /\ UNCHANGED <<now, hookVars, srcVars, activeRec, sessions, queue, startPc,
                 stopVars, bgVars, recPc, nfix, delivered, stopDone, lastAcked,
                 sumVars>>

\* ---- SessionSummary screen ----
Categories == {"plastic", "glass"}

\* a form without validation
sessionSummarySchema_AcceptsAll(totalWeightKg, foundCategories) == TRUE

\* the zod schema handleSubmit validates the form against before onSubmit runs
sessionSummarySchema(totalWeightKg, foundCategories) ==
  /\ totalWeightKg >= 0
  /\ foundCategories \subseteq Categories
  /\ Cardinality(foundCategories) >= 1

\* Math.round(data.totalWeightKg * 1000), for a whole number of kilograms
totalWeightG(totalWeightKg) == totalWeightKg * 1000

\* updatedSession of onSubmit (times are epoch milliseconds, never 0: only an
\* absent endTime is replaced)
summarySession(session, totalWeightKg, foundCategories, t) ==
  [session EXCEPT !.endTime = IF @ = Undefined THEN t ELSE @,
                  !.totalWeightG = totalWeightG(totalWeightKg),
                  !.foundCategories = foundCategories]

\* the screen is opened for a session id; loadSession awaits getSession
OpenSummary(id) ==
  /\ sumPc = "closed"
  /\ sumId' = id
  /\ sumPc' = "loading"
  /\ recovered' = NotRecovered
  /\ UNCHANGED pending
  /\ UNCHANGED <<now, hookVars, srcVars, activeRec, sessions, queue, startPc,
                 stopVars, bgVars, recPc, nfix, delivered, stopDone, lastAcked,
                 stop2Vars, sumSession>>

\* loadSession: getSession answered; when the id is not among the completed
\* sessions, getCurrentSession is awaited
SummaryLoad ==
  /\ sumPc = "loading"
  /\ IF getSession(sessions, sumId) # None
       THEN /\ sumSession' = getSession(sessions, sumId)
            /\ sumPc' = "open"
            /\ UNCHANGED queue
       ELSE /\ Len(queue) < MaxQueue
            /\ queue' = Append(queue, Get("summary"))
            /\ sumPc' = "fallback"
            /\ UNCHANGED sumSession
  /\ recovered' = NotRecovered
  /\ UNCHANGED pending
  /\ UNCHANGED <<now, hookVars, srcVars, activeRec, sessions, startPc,
                 stopVars, bgVars, recPc, nfix, delivered, stopDone, lastAcked,
                 stop2Vars, sumId>>

\* loadSession: the store answers getCurrentSession; 'Session not found' and
\* router.back() when the active record is not that session either
StoreGetSummary ==
  /\ queue # <<>>
  /\ Head(queue).kind = "get"
  /\ Head(queue).by = "summary"
  /\ queue' = Tail(queue)
  /\ IF getCurrentSession(activeRec) # None /\ getCurrentSession(activeRec).id = sumId
       THEN /\ sumSession' = getCurrentSession(activeRec)
            /\ sumPc' = "open"
            /\ UNCHANGED sumId
       ELSE /\ sumPc' = "closed"
            /\ sumId' = Undefined
            /\ UNCHANGED sumSession
  /\ recovered' = NotRecovered
  /\ UNCHANGED pending
  /\ UNCHANGED <<now, hookVars, srcVars, activeRec, sessions, startPc,
                 stopVars, bgVars, recPc, nfix, delivered, stopDone, lastAcked,
                 stop2Vars>>

\* handleSubmit(onSubmit): the form is valid, saveSession(updatedSession)
\* resolved, getCurrentSession is awaited
SubmitSummary(totalWeightKg, foundCategories, t) ==
  /\ sumPc = "open"
  /\ sessionSummarySchema(totalWeightKg, foundCategories)
  /\ Len(sessions) < MaxRecords
  /\ Len(queue) < MaxQueue
  /\ sumSession.endTime # Undefined => t = now
  /\ sessions' = saveSession(sessions,
                    summarySession(sumSession, totalWeightKg, foundCategories, t))
  /\ now' = t
  /\ queue' = Append(queue, Get("submit"))
  /\ sumPc' = "check"
  /\ recovered' = NotRecovered
  /\ UNCHANGED pending
  /\ UNCHANGED <<hookVars, srcVars, activeRec, startPc, stopVars, bgVars, recPc,
                 nfix, delivered, stopDone, lastAcked, stop2Vars, sumId, sumSession>>

\* sessionWithoutSummary of the cancel handler
sessionWithoutSummary(session, t) ==
  [session EXCEPT !.endTime = IF @ = Undefined THEN t ELSE @]

\* 'Save Without Summary': saveSession(sessionWithoutSummary) resolved, and
\* saveCurrentSession(null) is issued whatever the active record holds
CancelSummary(t) ==
  /\ sumPc = "open"
  /\ Len(sessions) < MaxRecords
  /\ Len(queue) < MaxQueue
  /\ sumSession.endTime # Undefined => t = now
  /\ sessions' = saveSession(sessions, sessionWithoutSummary(sumSession, t))
  /\ now' = t
  /\ queue' = Append(queue, Put(None, "summary", NoFix))
  /\ sumPc' = "clear"
  /\ recovered' = NotRecovered
  /\ UNCHANGED pending
  /\ UNCHANGED <<hookVars, srcVars, activeRec, startPc, stopVars, bgVars, recPc,
                 nfix, delivered, stopDone, lastAcked, stop2Vars, sumId, sumSession>>

\* onSubmit: saveSession threw, the catch alerts and the screen stays open
SubmitSummaryFail ==
  /\ sumPc = "open"
  /\ recovered' = NotRecovered
  /\ UNCHANGED pending
  /\ UNCHANGED <<now, hookVars, srcVars, activeRec, sessions, queue, startPc,
                 stopVars, bgVars, recPc, nfix, delivered, stopDone, lastAcked,
                 stop2Vars, sumVars>>

\* onSubmit: the store answers getCurrentSession; the active record is cleared
\* when it is the session of the screen, otherwise the screen is left
StoreGetSubmit ==
  /\ queue # <<>>
  /\ Head(queue).kind = "get"
  /\ Head(queue).by = "submit"
  /\ IF getCurrentSession(activeRec) # None
          /\ getCurrentSession(activeRec).id = sumSession.id
       THEN /\ queue' = Append(Tail(queue), Put(None, "summary", NoFix))
            /\ sumPc' = "clear"
            /\ UNCHANGED <<sumId, sumSession>>
       ELSE /\ queue' = Tail(queue)
            /\ sumPc' = "closed"
            /\ sumId' = Undefined
            /\ sumSession' = None
  /\ recovered' = NotRecovered
  /\ UNCHANGED pending
  /\ UNCHANGED <<now, hookVars, srcVars, activeRec, sessions, startPc,
                 stopVars, bgVars, recPc, nfix, delivered, stopDone, lastAcked,
                 stop2Vars>>

\* the process dies and is launched again: the mount effect reads the store
Restart(keepBg) ==
  /\ currentSession' = None
  /\ isTracking' = FALSE
  /\ subRef' = FALSE
  /\ bgRunning' = (bgRunning /\ keepBg)
  /\ queue' = <<Get("recover")>>
  /\ startPc' = "idle"
  /\ stopPc' = "idle"
  /\ stopSession' = None
  /\ bgPc' = "idle"
  /\ bgFix' = NoFix
  /\ bgSnap' = None
  /\ recPc' = "reading"
  /\ delivered' = {}
  /\ stopDone' = FALSE
  /\ stop2Pc' = "idle"
  /\ stop2Session' = None
  /\ sumPc' = "closed"
  /\ sumId' = Undefined
  /\ sumSession' = None
  /\ pending' = {}
  /\ UNCHANGED <<now, activeRec, sessions, nfix, lastAcked, recovered>>

\* loadActiveSession: requestPermissions and startLocationUpdatesAsync
RecoverResume(hasPermission, ok) ==
  /\ recPc = "resume"
  /\ IF hasPermission
       THEN /\ bgRunning' = (bgRunning \/ ok)
            /\ recPc' = "watch"
       ELSE /\ recPc' = "done"
            /\ UNCHANGED bgRunning
  /\ UNCHANGED <<now, currentSession, isTracking, subRef, activeRec,
                 sessions, queue, startPc, stopVars, bgVars, nfix, delivered, stopDone,
                 lastAcked>>
  /\ UNCHANGED <<stop2Vars, sumVars, pending, recovered>>

\* loadActiveSession: watchPositionAsync, and the catch
RecoverWatch(ok) ==
  /\ recPc = "watch"
  /\ recPc' = "done"
  /\ IF ok
       THEN subRef' = TRUE
       ELSE UNCHANGED subRef
  /\ UNCHANGED <<now, currentSession, isTracking, bgRunning, activeRec, sessions,
                 queue, startPc, stopVars, bgVars, nfix, delivered, stopDone, lastAcked>>
  /\ UNCHANGED <<stop2Vars, sumVars, pending, recovered>>

Next ==
  \/ \E h \in BOOLEAN, t \in Times : StartCreate(h, t)
  \/ \E ok \in BOOLEAN : StartBackground(ok)
  \/ \E ok \in BOOLEAN : StartWatch(ok)
  \/ \E p \in Positions, t \in Times : FgIngest(MaxFixes, p, t)
  \/ \E p \in Positions : BgDeliver(MaxFixes, p)
  \/ \E t \in Times : StoreGetBg(t)
  \/ StoreGetRecover
  \/ StoreSet
  \/ StoreSetFail
  \/ StopBegin
  \/ \E t \in Times : \E d \in Skews(t) : StopBackground(t, d)
  \/ StopAppend
  \/ StopAppendFail
  \/ \E k \in BOOLEAN : Restart(k)
  \/ \E h \in BOOLEAN, ok \in BOOLEAN : RecoverResume(h, ok)
  \/ \E ok \in BOOLEAN : RecoverWatch(ok)

Spec == Init /\ [][Next]_vars

\* One run of the process within one millisecond, with longer paths: every
\* operation of the engine and of the store, no restart and no clock advance.
NextPath ==
  \/ \E h \in BOOLEAN : StartCreate(h, now)
  \/ \E ok \in BOOLEAN : StartBackground(ok)
  \/ \E ok \in BOOLEAN : StartWatch(ok)
  \/ \E p \in Positions : FgIngest(MaxPath, p, now)
  \/ \E p \in Positions : BgDeliver(MaxPath, p)
  \/ StoreGetBg(now)
  \/ StoreGetRecover
  \/ StoreSet
  \/ StoreSetFail
  \/ StopBegin
  \/ StopBackground(now, 0)
  \/ StopAppend
  \/ StopAppendFail

SpecPath == Init /\ [][NextPath]_vars

\* Stopping: one run of the process within one millisecond, with the foreground
\* watcher only (background location updates are not available, as in Expo Go)
\* and stopTracking calls that may overlap.
NextStop ==
  \/ \E h \in BOOLEAN : StartCreate(h, now)
  \/ StartBackground(FALSE)
  \/ \E ok \in BOOLEAN : StartWatch(ok)
  \/ \E p \in Positions : FgIngest(MaxStopFixes, p, now)
  \/ StoreGetRecover
  \/ StoreSet
  \/ StoreSetFail
  \/ StopBegin
  \/ StopBackground(now, 0)
  \/ StopAppend
  \/ StopAppendFail
  \/ StopAgainBegin
  \/ StopAgainBackground(now, 0)
  \/ StopAgainAppend
  \/ StopAgainAppendFail

SpecStop == Init /\ [][NextStop]_vars

\* After the session: one run of the process within one millisecond, with the
\* foreground watcher only (background location updates are not available), one
\* stopTracking call at a time, and the SessionSummary screen.
NextSummary ==
  \/ \E h \in BOOLEAN : StartCreate(h, now)
  \/ StartBackground(FALSE)
  \/ \E ok \in BOOLEAN : StartWatch(ok)
  \/ \E p \in Positions : FgIngest(MaxStopFixes, p, now)
  \/ StoreGetRecover
  \/ StoreSet
  \/ StoreSetFail
  \/ StopBegin
  \/ StopBackground(now, 0)
  \/ StopAppend
  \/ StopAppendFail
  \/ \E id \in 0..MaxClock : OpenSummary(id)
  \/ SummaryLoad
  \/ StoreGetSummary
  \/ \E w \in -1..MaxWeightKg, c \in SUBSET Categories :
       SubmitSummary(w, c, now)
  \/ SubmitSummaryFail
  \/ StoreGetSubmit

SpecSummary == Init /\ [][NextSummary]_vars

\* A second session while the summary of the first is edited: the clock
\* advances at startTracking only, the foreground watcher is the only source,
\* and the screen is left by a submit or by 'Save Without Summary'.
NextCancel ==
  \/ \E h \in BOOLEAN, t \in Times : StartCreate(h, t)
  \/ StartBackground(FALSE)
  \/ \E ok \in BOOLEAN : StartWatch(ok)
  \/ \E p \in Positions : FgIngest(MaxStopFixes, p, now)
  \/ StoreGetRecover
  \/ StoreSet
  \/ StoreSetFail
  \/ StopBegin
  \/ StopBackground(now, 0)
  \/ StopAppend
  \/ StopAppendFail
  \/ \E id \in 0..MaxClock : OpenSummary(id)
  \/ SummaryLoad
  \/ StoreGetSummary
  \/ \E w \in 0..MaxWeightKg : SubmitSummary(w, Categories, now)
  \/ SubmitSummaryFail
  \/ StoreGetSubmit
  \/ CancelSummary(now)

SpecCancel == Init /\ [][NextCancel]_vars

\* ---- the completed collection (SESSIONS_KEY) ----

\* the sessions the callers hand to saveSession: the finalSession of
\* stopTracking, and the updatedSession of the SessionSummary screen
CompletedInputs ==
  LET finals == {finalSession(startSession(t), t, t) : t \in 0..MaxClock}
  IN finals \cup {summarySession(f, w, c, f.endTime) :
                     f \in finals, w \in 0..MaxWeightKg,
                     c \in (SUBSET Categories) \ {{}}}

\* storageService.saveSession: read the collection, append, write it back
SaveSession(session, readOk) ==
  /\ Len(sessions) < MaxRecords
  /\ sessions' = saveSession(getSessions(sessions, readOk), session)
  /\ recovered' = NotRecovered
  /\ UNCHANGED pending
  /\ UNCHANGED <<now, hookVars, srcVars, activeRec, queue, startPc, stopVars,
                 bgVars, recPc, nfix, delivered, stopDone, lastAcked,
                 stop2Vars, sumVars>>

\* storageService.deleteSession: read the collection, filter, write it back
DeleteSession(id, readOk) ==
  /\ sessions' = deleteSession(getSessions(sessions, readOk), id)
  /\ recovered' = NotRecovered
  /\ UNCHANGED pending
  /\ UNCHANGED <<now, hookVars, srcVars, activeRec, queue, startPc, stopVars,
                 bgVars, recPc, nfix, delivered, stopDone, lastAcked,
                 stop2Vars, sumVars>>

\* The operations of the storageService on the completed collection, called
\* in any order by the hook and the screens.
NextStore ==
  \/ \E session \in CompletedInputs, readOk \in BOOLEAN :
       SaveSession(session, readOk)
  \/ \E id \in 0..MaxClock, readOk \in BOOLEAN : DeleteSession(id, readOk)

SpecStore == Init /\ [][NextStore]_vars

\* ---- the completed collection, read and write as separate steps ----

\* the sessions appended in the runs of SpecRace: what stopTracking saves
RaceInputs == {finalSession(startSession(t), t, t) : t \in 0..MaxClock}

\* saveSession: `await this.getSessions()` has returned the collection
SaveRead(session) ==
  /\ Cardinality(pending) < MaxPending
  /\ Len(sessions) < MaxRecords
  /\ pending' = pending \cup {[op |-> "save", session |-> session,
                                id |-> session.id,
                                read |-> getSessions(sessions, TRUE)]}
  /\ UNCHANGED <<now, hookVars, srcVars, activeRec, sessions, queue, startPc,
                 stopVars, bgVars, recPc, nfix, delivered, stopDone, lastAcked,
                 stop2Vars, sumVars, recovered>>

\* saveSession: setItem writes what was read, with the session appended
SaveWrite(o) ==
  /\ o \in pending
  /\ o.op = "save"
  /\ sessions' = saveSession(o.read, o.session)
  /\ pending' = pending \ {o}
  /\ UNCHANGED <<now, hookVars, srcVars, activeRec, queue, startPc,
                 stopVars, bgVars, recPc, nfix, delivered, stopDone, lastAcked,
                 stop2Vars, sumVars, recovered>>

\* deleteSession: `await this.getSessions()` has returned the collection
DeleteRead(id) ==
  /\ Cardinality(pending) < MaxPending
  /\ pending' = pending \cup {[op |-> "delete", session |-> None, id |-> id,
                                read |-> getSessions(sessions, TRUE)]}
  /\ UNCHANGED <<now, hookVars, srcVars, activeRec, sessions, queue, startPc,
                 stopVars, bgVars, recPc, nfix, delivered, stopDone, lastAcked,
                 stop2Vars, sumVars, recovered>>

\* deleteSession: setItem writes what was read, without the records of the id
DeleteWrite(o) ==
  /\ o \in pending
  /\ o.op = "delete"
  /\ sessions' = deleteSession(o.read, o.id)
  /\ pending' = pending \ {o}
  /\ UNCHANGED <<now, hookVars, srcVars, activeRec, queue, startPc,
                 stopVars, bgVars, recPc, nfix, delivered, stopDone, lastAcked,
                 stop2Vars, sumVars, recovered>>

\* Calls of saveSession and deleteSession by the hook and the screens, each an
\* await of the read followed by the write; every read succeeds.
NextRace ==
  \/ \E session \in RaceInputs : SaveRead(session)
  \/ \E o \in pending : SaveWrite(o)
  \/ \E id \in 0..MaxClock : DeleteRead(id)
  \/ \E o \in pending : DeleteWrite(o)

SpecRace == Init /\ [][NextRace]_vars

\* ---- fixes with device timestamps ----

\* the timestamps the device may attach to a fix, whatever the arrival order
FixStamps == 1..MaxStamp

\* One run of the process within one millisecond in which the timestamp of a
\* fix is independent of the order of arrival; no stop and no restart.
NextOrder ==
  \/ \E h \in BOOLEAN : StartCreate(h, now)
  \/ \E ok \in BOOLEAN : StartBackground(ok)
  \/ \E ok \in BOOLEAN : StartWatch(ok)
  \/ \E p \in Positions, ts \in FixStamps :
       FgIngestFix(MaxFixes, [latitude |-> p, timestamp |-> ts], now)
  \/ \E p \in Positions, ts \in FixStamps :
       BgDeliverFix(MaxFixes, [latitude |-> p, timestamp |-> ts])
  \/ StoreGetBg(now)
  \/ StoreGetRecover
  \/ StoreSet
  \/ StoreSetFail

SpecOrder == Init /\ [][NextOrder]_vars

\* ---- properties ----
Ids(ss) == {ss[i].id : i \in 1..Len(ss)}
Stamps(locs) == {locs[i].timestamp : i \in 1..Len(locs)}

\* the engine is idle: no session in memory, no call in progress
EngineIdle ==
  /\ currentSession = None
  /\ ~isTracking
  /\ startPc = "idle"
  /\ stopPc = "idle"
  /\ recPc = "done"

\* distanceM of an aggregate: the consumers read `distance || 0`
distanceM(s) == IF s.distance = Undefined THEN 0 ELSE s.distance

RECURSIVE PathLength(_)
\* the sum of the distances over the consecutive pairs, taken from the end
PathLength(fixes) ==
  IF Len(fixes) < 2 THEN 0
  ELSE PathLength(SubSeq(fixes, 1, Len(fixes) - 1))
         + Abs(fixes[Len(fixes)].latitude - fixes[Len(fixes) - 1].latitude)

\* C1: whenever the in-memory session and the persisted active record are both
\* present they are the same session (same id): there is one active session.
C1_OneActiveSession ==
  (currentSession # None /\ activeRec # None) => currentSession.id = activeRec.id

\* C2: a startTracking call that runs while a session is held leaves that session
\* untouched, in memory and in the active record.
C2_StartWhileActiveRejected ==
  [][(startPc = "idle" /\ startPc' = "bg" /\ currentSession # None)
       => (currentSession' = currentSession /\ activeRec' = activeRec)]_vars

\* C3: when stopTracking has appended the aggregate to the completed collection,
\* every fix delivered while the session was Active is among its fixes.
C3_NoFixLost ==
  stopPc = "clear" => delivered \subseteq Stamps(sessions[Len(sessions)].locations)

\* C4: when the background task's write of the active record is executed, the
\* record it replaces is the one the task read: no write came in between.
C4_ReadModifyWriteExclusive ==
  [][(bgPc = "saving" /\ bgPc' = "idle" /\ activeRec' # activeRec)
       => activeRec = bgSnap]_vars

C6_StartPersistsEmptySession ==
  (currentSession # None /\ currentSession.locations = <<>> /\ isTracking
     /\ startPc = "idle" /\ stopPc = "idle")
    => activeRec = currentSession

\* C7: when the active record is cleared, the session it held is in the completed
\* collection: a session persisted as active is never in neither place.
C7_ActiveOrCompleted ==
  [][(activeRec # None /\ activeRec' = None) => activeRec.id \in Ids(sessions')]_vars

\* C8: a fix that arrives while there is no session (no current session in the
\* hook; for the background task, which sees only the store, no active record
\* either) creates no session and writes nothing to the active record.
C8_IngestWhileIdleIsNoop ==
  [][/\ (bgPc = "reading" /\ bgPc' = "saving" /\ activeRec = None
            /\ currentSession = None)
          => queue' = Tail(queue)
     /\ (nfix' = nfix + 1 /\ bgPc' = bgPc /\ currentSession = None)
          => (currentSession' = None /\ queue' = queue)]_vars

\* C9: once stopTracking has completed and left the active record absent, the
\* record stays absent as long as the engine is idle (no startTracking call, no
\* watcher subscribed).
C9_AbsentAfterStop ==
  [][(stopDone /\ EngineIdle /\ ~subRef /\ activeRec = None)
       => activeRec' = None]_vars

\* C10: in the published session, in the active record and in every completed
\* record, the distance is the sum of the distances over the consecutive pairs of
\* the fixes.
C10_DistanceIsPathLength ==
  /\ currentSession # None => distanceM(currentSession) = PathLength(currentSession.locations)
  /\ activeRec # None => distanceM(activeRec) = PathLength(activeRec.locations)
  /\ \A i \in 1..Len(sessions) : distanceM(sessions[i]) = PathLength(sessions[i].locations)

\* C10 witness: a stopped session of two fixes a positive distance apart
C10_Witness ==
  /\ sessions # <<>>
  /\ Len(sessions[1].locations) = 2
  /\ sessions[1].distance > 0

\* s is an initial part of t
IsPrefix(s, t) == Len(s) <= Len(t) /\ SubSeq(t, 1, Len(s)) = s

\* two values of one session: same id and startTime, and the same first fix
SameSession(a, b) ==
  /\ a # None /\ b # None
  /\ a.id = b.id /\ a.startTime = b.startTime
  /\ a.locations # <<>> /\ b.locations # <<>>
  /\ a.locations[1] = b.locations[1]

\* C11: from one value of a session to the next, in memory and in the active
\* record, the fixes of the earlier value are an initial part of the fixes of the
\* later one: no fix is removed, replaced or reordered.
C11_FixesAppendOnly ==
  [][/\ SameSession(currentSession, currentSession')
          => IsPrefix(currentSession.locations, currentSession'.locations)
     /\ SameSession(activeRec, activeRec')
          => IsPrefix(activeRec.locations, activeRec'.locations)]_vars

\* C12: while the engine is Active, the fixes of the persisted record of its
\* session are an initial part of the fixes of the session in memory.
C12_StoreNotAhead ==
  (Active /\ SameSession(currentSession, activeRec))
    => IsPrefix(activeRec.locations, currentSession.locations)

IdleStop == stopPc # "idle" /\ stopSession.id = Undefined

\* C15: a stopTracking call made while the engine holds no session reports an
\* error: it returns from its catch block (the step from "save"), the only place
\* where stopTracking reports anything to its caller.
C15_StopWhileIdleReportsError ==
  [][(IdleStop /\ stopPc' = "idle") => stopPc = "save"]_vars

\* C16: no step of a stopTracking call made while the engine holds no session
\* touches the store: the completed collection and the active record stay as they
\* are and the call issues no write of the active record.
C16_StopWhileIdleLeavesStore ==
  [][(stopPc' # stopPc /\ (IdleStop \/ (stopPc = "idle" /\ currentSession = None)))
       => /\ sessions' = sessions
          /\ activeRec' = activeRec
          /\ \A i \in 1..Len(queue') : queue'[i].by # "stop"]_vars

\* C16 witness: a stopTracking call is in progress on an engine that holds no
\* session while the store holds an active record
C16_Witness ==
  /\ stopPc = "stopBg"
  /\ stopSession = None
  /\ currentSession = None
  /\ ~isTracking
  /\ activeRec # None

\* C18: every record stopTracking has stored has its duration equal to its
\* endTime minus its startTime.
C18_DurationIsEndMinusStart ==
  \A i \in 1..Len(sessions) :
    sessions[i].duration = sessions[i].endTime - sessions[i].startTime

\* C17: the completed collection holds one record per session: no two of its
\* records are the same session (same id, startTime and fixes), however many
\* stopTracking calls were made for it.
C17_OneRecordPerSession ==
  \A i, j \in 1..Len(sessions) :
    i # j => ~(/\ sessions[i].id = sessions[j].id
               /\ sessions[i].startTime = sessions[j].startTime
               /\ sessions[i].locations = sessions[j].locations)

\* C19: a submit of the SessionSummary screen for an id that is not in the
\* completed collection, while the engine is tracking the session of that id,
\* leaves the completed collection as it is.
C19_SummaryOnlyOnCompleted ==
  [][(sumPc = "open" /\ sumPc' = "check" /\ sumId \notin Ids(sessions)
        /\ Active /\ isTracking /\ currentSession.id = sumId)
       => sessions' = sessions]_vars

\* C20: after a submit of the SessionSummary screen for a stopped session of the
\* completed collection, made when stopTracking has returned and the engine holds
\* no session, getSession for its id returns a record with the weight
\* and the categories of the record that was just handed to saveSession (the last
\* of the collection).
C20_SummaryRetrievable ==
  [][(sumPc = "open" /\ sumPc' = "check" /\ sumId \in Ids(sessions)
        /\ sumSession.endTime # Undefined /\ stopPc = "idle" /\ currentSession = None)
       => LET got == getSession(sessions', sumId)
              given == sessions'[Len(sessions')]
          IN  /\ got.totalWeightG = given.totalWeightG
              /\ got.foundCategories = given.foundCategories]_vars

\* C21: the completed collection holds at most one record per session id.
C21_KeyedById ==
  \A i, j \in 1..Len(sessions) : i # j => sessions[i].id # sessions[j].id

\* the fields of a session that are frozen once it has ended
Core(s) == <<s.id, s.startTime, s.endTime, s.locations, s.distance, s.duration>>

\* C22: the records of the completed collection keep their id, startTime, endTime,
\* fixes, distance and duration, and the record a submit of the SessionSummary
\* screen hands to saveSession has these fields as the session the screen loaded:
\* the screen changes the summary only, endTime is set by stopTracking.
C22_FrozenAfterEnd ==
  [][/\ \A i \in 1..Len(sessions) :
          i <= Len(sessions') /\ Core(sessions'[i]) = Core(sessions[i])
     /\ (sumPc = "open" /\ sumPc' = "check")
          => Core(sessions'[Len(sessions')]) = Core(sumSession)]_vars

\* C27: the SessionSummary screen never changes the persisted active record.
C27_OnlyEngineWritesActive ==
  [][(queue # <<>> /\ Head(queue).kind = "put" /\ Head(queue).by = "summary")
       => activeRec' = activeRec]_vars

\* the ids of the sessions that exist: in memory, persisted or completed
KnownIds ==
  Ids(sessions) \cup {s.id : s \in {currentSession, activeRec} \ {None}}

\* C23: a session that is created (by startTracking while no session exists, by
\* handleLocationUpdate without a session, or by the background task without a
\* record) gets an id that no existing session has.
C23_IdsNeverReused ==
  [][/\ (startPc = "idle" /\ startPc' = "bg" /\ currentSession = None)
          => currentSession'.id \notin KnownIds
     /\ (nfix' = nfix + 1 /\ bgPc' = bgPc /\ currentSession = None)
          => currentSession'.id \notin KnownIds
     /\ (bgPc = "reading" /\ bgPc' = "saving" /\ activeRec = None)
          => queue'[Len(queue')].val.id \notin KnownIds]_vars

\* C25: when startTracking has created its session, the call ends with the
\* engine Active, whether or not the watcher could be started.
C25_SourceUnavailableNonFatal ==
  [][(/\ startPc = "watch" /\ startPc' = "idle"
      /\ stopPc = "idle"
      /\ currentSession # None /\ currentSession' = currentSession)
       => isTracking']_vars

\* C26: a stopTracking call whose removal of the active record failed does not
\* complete like a successful one (the failure reaches the caller).
C26_StoreErrorsReported ==
  [][(/\ queue # <<>> /\ Head(queue).kind = "put" /\ Head(queue).by = "stop"
      /\ queue' = Tail(queue)
      /\ activeRec # None /\ activeRec' = activeRec)
       => ~stopDone']_vars

\* the fixes delivered to the running session whose ingest has issued its write
\* and is not waiting behind the write at the head of the queue
Settled ==
  delivered \ ({queue[i].fix.timestamp : i \in 2..Len(queue)}
                 \cup (IF bgPc = "reading" THEN {bgFix.timestamp} ELSE {}))

\* C24: when the write of an ingest fails the fix is in the session in memory,
\* and when the write of an ingest succeeds the persisted active record holds
\* every fix ingested so far, those whose write failed included.
C24_FailedWriteHeals ==
  [][(/\ queue # <<>> /\ Head(queue).kind = "put"
      /\ Head(queue).by \in {"fg", "bg"}
      /\ Head(queue).fix.timestamp \in delivered
      /\ queue' = Tail(queue)
      /\ Active /\ Active')
       => IF activeRec' = Head(queue).val
            THEN Settled \subseteq Stamps(activeRec'.locations)
            ELSE Head(queue).fix.timestamp \in Stamps(currentSession.locations)]_vars

\* C30: when stopTracking completes with its last write acknowledged and no
\* ingest in progress, the completed collection holds exactly one record of the
\* stopped session, with an endTime and with exactly the fixes delivered to the
\* session in the order of their arrival, the active record is absent and the
\* engine is idle.
C30_EndToEnd ==
  [][(/\ queue # <<>> /\ Head(queue).kind = "put" /\ Head(queue).by = "stop"
      /\ queue' = <<>>
      /\ lastAcked # Head(queue) /\ lastAcked' = Head(queue)
      /\ bgPc = "idle")
       => /\ Cardinality({i \in 1..Len(sessions') :
                            sessions'[i].id = stopSession.id}) = 1
          /\ LET rec == getSession(sessions', stopSession.id)
             IN /\ rec.endTime # Undefined
                /\ Stamps(rec.locations) = delivered
                /\ Len(rec.locations) = Cardinality(delivered)
                /\ \A i \in 1..(Len(rec.locations) - 1) :
                      rec.locations[i].timestamp < rec.locations[i + 1].timestamp
          /\ activeRec' = None
          /\ currentSession' = None /\ ~isTracking']_vars

\* C28: an operation on the completed collection either leaves every session id
\* in it, or is the deletion of exactly one of its ids.
C28_NeverRemovedImplicitly ==
  [][\/ Ids(sessions) \subseteq Ids(sessions')
     \/ \E id \in Ids(sessions) : sessions' = deleteSession(sessions, id)]_vars

\* C29: an ingest into an existing session, by the hook or by the background
\* task, yields the fixes held so far followed by the fix that arrived,
\* whatever its timestamp.
C29_ArrivalOrder ==
  [][/\ (nfix' = nfix + 1 /\ bgPc' = bgPc /\ currentSession # None)
          => currentSession'.locations =
               Append(currentSession.locations, queue'[Len(queue')].fix)
     /\ (bgPc = "reading" /\ bgPc' = "saving" /\ activeRec # None)
          => queue'[Len(queue')].val.locations =
               Append(activeRec.locations, bgFix)]_vars

\* C29 witness: the session in memory, saved as the active record, holds two
\* fixes of which the one that arrived later has the earlier timestamp.
C29_Witness ==
  /\ currentSession # None
  /\ Len(currentSession.locations) = 2
  /\ currentSession.locations[1].timestamp > currentSession.locations[2].timestamp
  /\ activeRec = currentSession

\* no startTracking, stopTracking or loadActiveSession call is in progress
Quiet == startPc = "idle" /\ stopPc = "idle" /\ stop2Pc = "idle" /\ recPc = "done"

\* C36: once a stopTracking call has saved its session and completed, and the
\* calls that were in progress have returned, no watcher subscription and no
\* background task is attached.
C36_NoSourceAfterStop ==
  (stopDone /\ Quiet) => (~subRef /\ ~bgRunning)

\* C37: while no call is in progress, isTracking is true exactly when the hook
\* holds a session.
C37_FlagAgreesWithSession ==
  Quiet => (isTracking <=> currentSession # None)

\* the fixes held by the session in memory and by the active record
HeldFixes ==
  {currentSession.locations[i] : i \in 1..Len(currentSession.locations)}
    \cup {activeRec.locations[i] : i \in 1..Len(activeRec.locations)}

Frame(a, b) ==
  /\ b.id = a.id /\ b.startTime = a.startTime /\ b.endTime = a.endTime
  /\ b.totalWeightG = a.totalWeightG /\ b.foundCategories = a.foundCategories

C38_FailedAppendLosesNothing ==
  [][/\ (stopPc = "save" /\ stopPc' = "idle")
          => \/ /\ recPc' = "reading" /\ queue' = <<Get("recover")>>
                /\ currentSession' = None
             \/ /\ activeRec' = activeRec /\ sessions' = sessions
                /\ queue' = queue
                /\ currentSession' = currentSession
                /\ isTracking' = isTracking
                /\ currentSession.endTime = Undefined
     /\ (stopPc = "save" /\ stopPc' = "clear")
          => /\ sessions' = Append(sessions, stopSession)
             /\ stopSession.endTime # Undefined]_vars

\* C38 witness: fixes were delivered in this run of the process, stopTracking
\* has detached both sources and returned, and the engine still tracks the
\* session, which is also the active record; nothing was appended.
C38_Witness ==
  /\ Quiet
  /\ isTracking /\ currentSession # None
  /\ delivered # {}
  /\ ~subRef /\ ~bgRunning
  /\ currentSession.endTime = Undefined
  /\ activeRec = currentSession
  /\ sessions = <<>>

\* C31: every record of the completed collection that carries a summary has a
\* weight that is not negative and a set of categories that is not empty and
\* consists of categories of the form.
C31_StoredSummaryValid ==
  \A i \in 1..Len(sessions) :
     (sessions[i].totalWeightG # Undefined \/ sessions[i].foundCategories # {})
       => /\ sessions[i].totalWeightG >= 0
          /\ sessions[i].foundCategories # {}
          /\ sessions[i].foundCategories \subseteq Categories

\* C31 witness: a summary with the largest weight and every category was
\* stored for a completed session.
C31_Witness ==
  \E i \in 1..Len(sessions) :
     /\ sessions[i].totalWeightG = totalWeightG(MaxWeightKg)
     /\ sessions[i].foundCategories = Categories
     /\ sessions[i].endTime # Undefined

\* C35: a write issued by the SessionSummary screen for a completed session
\* leaves the active record of another session, which the engine is tracking,
\* as it is.
C35_SummaryKeepsOtherActive ==
  [][(/\ queue # <<>> /\ Head(queue).kind = "put" /\ Head(queue).by = "summary"
      /\ sumSession # None /\ sumSession.endTime # Undefined
      /\ activeRec # None /\ activeRec.id # sumSession.id
      /\ Active /\ isTracking /\ currentSession.id = activeRec.id)
       => activeRec' = activeRec]_vars

\* C39: when a call of saveSession or deleteSession writes, its write keeps
\* what other calls have written since it read: an append leaves every session
\* id of the collection in it and adds its own, a delete removes its id and no
\* other.
C39_NoLostUpdate ==
  [][\A o \in pending :
        pending' = pending \ {o}
          => IF o.op = "save"
               THEN Ids(sessions') = Ids(sessions) \cup {o.id}
               ELSE Ids(sessions') = Ids(sessions) \ {o.id}]_vars

\* C40: deleteSession removes the records of one id and nothing else: a step
\* that leaves the completed collection empty (only deleteSession writes an
\* empty collection) has removed the records of a single id.
C40_DeleteRemovesOnlyItsId ==
  [][(sessions # <<>> /\ sessions' = <<>>)
       => \E id \in 0..MaxClock : sessions' = deleteSession(sessions, id)]_vars
====
